---- MODULE Spec2Model ----
(***************************************************************************)
(* Quota-bounded acquisition client of src/main.py: the quota ledger       *)
(* (QuotaTracker), the response cache (APICache) and the credential        *)
(* rotating client (YouTubeClient, with the upstream calls that            *)
(* StreamingDetector issues through it), in production mode.               *)
(*                                                                         *)
(* One process runs at a time.  A public client operation is started by    *)
(* its caller and then advances one upstream attempt per step; every step  *)
(* runs the code from one upstream answer up to the next upstream request  *)
(* or to the operation's return.  The wall clock is taken to advance       *)
(* between two operations, and the process may stop and be started again   *)
(* at any point.                                                           *)
(*                                                                         *)
(* The engine (StreamingArgentinaEngine, with ChannelAnalyzer and           *)
(* DataManager) drives the client through one daily run after another;     *)
(* between runs channels may be added to the CSV by agregar_canales.py.    *)
(***************************************************************************)
EXTENDS Integers, Sequences, FiniteSets, TLC

VARIABLES
    now,                  \* wall clock, in seconds (time.time / datetime.now)
    quota_file,           \* cache/quota_tracker.json
    cache_file,           \* cache/api_cache.json
    n_keys,               \* len(self.api_keys)
    used_quota,           \* QuotaTracker.used_quota
    key_index,            \* YouTubeClient.key_index
    all_apis_exhausted,   \* YouTubeClient.all_apis_exhausted
    cache_data,           \* APICache.cache_data
    frame,                \* the client operation in progress and its locals
    ret,                  \* how the last client operation returned
    afford,               \* last can_make_request call and its answer
    charge,               \* last use_quota call and how it ended
    last_answer,          \* how upstream answered in the last step, if it was asked
    charged_today,        \* quota charged on the current calendar day, all processes
    ledger_day,           \* calendar day of this process's last load_quota / use_quota
    engine,               \* StreamingArgentinaEngine: where the run is, and its locals
    processed_channels,   \* DataManager.processed_channels
    processed_file,       \* data/processed_channels.pkl
    streamers_csv,        \* data/streamers_argentinos.csv
    analysed,             \* channels this process has called analyze_channel on
    classified,           \* channels whose detail was fetched and classified, ever
    loaded_seen,          \* processed_channels as this process loaded it
    got,                  \* last APICache.get of the cache harness and its result
    stored,               \* what the cache harness last put under each key, and when
    text,                 \* the words of a channel's title and description
    channel_details,      \* the kinds of its fields, its counts and flags
    streamer,             \* what process_search_term made of that channel
    workers,              \* concurrent callers of use_quota, mark_channel_processed
    day_of_year,          \* datetime.now().timetuple().tm_yday
    current_phase,        \* the phase run_daily_execution chose, 0 before a run
    ticks, restarts, ops  \* counters that bound the exploration

vars == << now, quota_file, cache_file, n_keys, used_quota, key_index,
           all_apis_exhausted, cache_data, frame, ret, afford, charge,
           last_answer, charged_today, ledger_day, engine, processed_channels,
           processed_file, streamers_csv, analysed, classified, loaded_seen,
           got, stored, text, channel_details, streamer, workers, day_of_year,
           current_phase, ticks, restarts, ops >>

-----------------------------------------------------------------------------
(* Config *)

MAX_DAILY_QUOTA == 20000
SAFETY_BUFFER == 2000
COST_SEARCH == 100
COST_CHANNEL_DETAILS == 3
COST_VIDEO_LIST == 3
COST_STREAM_CHECK == 3
MIN_SUBSCRIBERS == 500
MIN_CERTAINTY_ARGENTINA == 75
CACHE_TTL == 604800
NKeys == 2
SecondsPerDay == 86400
SAVE_EVERY == 50
ANALYSIS_RESERVE == 9

(* Bounds of the exploration *)

MaxTicks == 1
MaxRestarts == 1
MaxOps == 2
MaxPages == 2
MaxCacheTicks == 2

-----------------------------------------------------------------------------
(* Calendar *)

Date(t) == t \div SecondsPerDay

StartTime == SecondsPerDay + (SecondsPerDay \div 2)

TickSteps == { SecondsPerDay \div 2 }

-----------------------------------------------------------------------------
(* QuotaTracker *)

(* the file is missing, or json.load fails on it *)
NoFile == [kind |-> "none", date |-> 0, used |-> 0]

(* what earlier processes left in the file: nothing readable, yesterday's  *)
(* usage, or today's usage so far                                          *)
PersistedUsed == {17897, 17900, 17987, 17993}

InitQuotaFiles ==
    {NoFile, [kind |-> "ok", date |-> Date(StartTime) - 1, used |-> 17900]}
    \cup { [kind |-> "ok", date |-> Date(StartTime), used |-> u] : u \in PersistedUsed }

load_quota(file, t) ==
    IF file.kind = "ok" /\ file.date = Date(t) THEN file.used ELSE 0

save_quota(used, t) == [kind |-> "ok", date |-> Date(t), used |-> used]

(* can_use_quota with the ceiling itself refused *)
can_use_quota_strict(used, cost) ==
    LET effective_limit == MAX_DAILY_QUOTA - SAFETY_BUFFER
    IN  (used + cost) < effective_limit

(* can_use_quota granting every request *)
can_use_quota_always(used, cost) == TRUE

can_use_quota(used, cost) ==
    LET effective_limit == MAX_DAILY_QUOTA - SAFETY_BUFFER
    IN  (used + cost) <= effective_limit

use_quota(used, cost) ==
    LET new_used == used + cost
    IN  [ used   |-> new_used,
          raised |-> new_used >= (MAX_DAILY_QUOTA - SAFETY_BUFFER) ]

get_remaining(used) == MAX_DAILY_QUOTA - used

-----------------------------------------------------------------------------
(* APICache *)

SearchItems == { <<"c1", "c2">> }
Queries == { "q1" }
ChannelIds == { "c1" }
AllQueries == { "q1", "q2" }
AllChannels == { "c1", "c2" }

SearchKey(query, page) == [t |-> "search", id |-> query, page |-> page]
ChannelKey(channel_id) == [t |-> "channel", id |-> channel_id, page |-> 0]

CacheKeys ==
    { SearchKey(q, p) : q \in AllQueries, p \in 0..(MaxPages - 1) } \cup
    { ChannelKey(c) : c \in AllChannels }

NoData == [items |-> <<>>, next |-> FALSE, found |-> FALSE, text_score |-> 0,
           has_streaming |-> FALSE, strong |-> 0, long |-> 0, videos |-> 0]
NoEntry == [present |-> FALSE, data |-> NoData, timestamp |-> 0]
EmptyCache == [k \in CacheKeys |-> NoEntry]

(* APICache.get serving an entry that is exactly ttl old *)
APICache_get_late(cache, key, t) ==
    LET entry == cache[key]
    IN  IF entry.present /\ (t - entry.timestamp <= CACHE_TTL)
        THEN [hit |-> TRUE, data |-> entry.data]
        ELSE [hit |-> FALSE, data |-> NoData]

APICache_get(cache, key, t) ==
    LET entry == cache[key]
    IN  IF entry.present /\ (t - entry.timestamp < CACHE_TTL)
        THEN [hit |-> TRUE, data |-> entry.data]
        ELSE [hit |-> FALSE, data |-> NoData]

APICache_set(cache, file, key, data, t) ==
    LET new_cache == [cache EXCEPT ![key] =
                         [present |-> TRUE, data |-> data, timestamp |-> t]]
        size == Cardinality({k \in CacheKeys : new_cache[k].present})
    IN  [cache |-> new_cache,
         file  |-> IF size % 10 = 0 THEN new_cache ELSE file]

load_cache(file) == file

-----------------------------------------------------------------------------------------------------------------------------------------------------
(* Upstream answers.  A body carries what the code reads of a response:    *)
(* items / next (nextPageToken present) of a channel search; found (items  *)
(* not empty) and text_score (the description, schedule and platform       *)
(* scores of the channel's texts, summed) of a channel detail; strong and  *)
(* long (videos with a strong indicator, videos with a duration word) of a *)
(* keyword search; videos (number of items) of a video list.               *)

SearchResponses ==
    { [NoData EXCEPT !.items = i, !.next = b] : i \in SearchItems, b \in BOOLEAN }

TextScores == {0, 15}
DetailResponses ==
    { NoData } \cup
    { [NoData EXCEPT !.found = TRUE, !.text_score = s] : s \in TextScores }

KeywordResponses ==
    { NoData, [NoData EXCEPT !.videos = 2, !.strong = 2, !.long = 2] }

BroadcastResponses == { [NoData EXCEPT !.videos = 5] }

VideoResponses == { [NoData EXCEPT !.videos = 2] }

Ok(body) == [kind |-> "ok", body |-> body]
QuotaExceeded == [kind |-> "quota", body |-> NoData]
OtherError == [kind |-> "other", body |-> NoData]

Answers(pc) ==
    {QuotaExceeded, OtherError} \cup
    { Ok(r) : r \in CASE pc = "search"    -> SearchResponses
                      [] pc = "detail"    -> DetailResponses
                      [] pc = "live_kw"   -> KeywordResponses
                      [] pc = "broadcast" -> BroadcastResponses
                      [] pc = "videos"    -> VideoResponses
                      [] OTHER            -> {} }

(* what the configuration declares a successful call of each kind to cost *)
DeclaredCost(pc) ==
    CASE pc = "search"    -> COST_SEARCH
      [] pc = "detail"    -> COST_CHANNEL_DETAILS
      [] pc = "live_kw"   -> COST_STREAM_CHECK
      [] pc = "broadcast" -> COST_STREAM_CHECK
      [] pc = "videos"    -> COST_VIDEO_LIST
      [] OTHER            -> 0

-----------------------------------------------------------------------------------------------------------------------------------------------------
(* The client's state as one record, so that the code of an operation reads *)
(* as a composition of its statements.                                      *)

IdleFrame ==
    [ op |-> "none", pc |-> "idle", query |-> "q1", channel_id |-> "c1",
      max_pages |-> 0, page |-> 0, token |-> FALSE, channels |-> <<>>,
      attempts |-> 0, issued |-> 0, called |-> FALSE, kw |-> 0, score |-> 0,
      live |-> 0, detail |-> NoData, pre_exh |-> FALSE ]

NoRet ==
    [ op |-> "none", kind |-> "none", channels |-> <<>>, channel |-> NoData,
      videos |-> 0, called |-> FALSE, pre_exh |-> FALSE ]

NoCharge == [cost |-> 0, before |-> 0, raised |-> FALSE]
NoAfford == [cost |-> 0, used |-> 0, answer |-> TRUE]

Client ==
    [ now |-> now, n |-> n_keys, used |-> used_quota, qfile |-> quota_file,
      cache |-> cache_data, cfile |-> cache_file, key |-> key_index,
      exh |-> all_apis_exhausted, f |-> frame, ret |-> ret, afford |-> afford,
      charge |-> charge, answer |-> last_answer,
      charged_today |-> charged_today, lday |-> ledger_day ]

Becomes(c) ==
    \E x \in {c} :
        /\ used_quota' = x.used
        /\ quota_file' = x.qfile
        /\ cache_data' = x.cache
        /\ cache_file' = x.cfile
        /\ key_index' = x.key
        /\ all_apis_exhausted' = x.exh
        /\ frame' = x.f
        /\ ret' = x.ret
        /\ afford' = x.afford
        /\ charge' = x.charge
        /\ last_answer' = x.answer
        /\ charged_today' = x.charged_today
        /\ ledger_day' = x.lday

(* a public operation returns (or raises, kind "exhausted") to its caller *)
Return(c, kind, channels, channel, videos) ==
    [c EXCEPT !.f = IdleFrame,
              !.ret = [ op |-> c.f.op, kind |-> kind, channels |-> channels,
                        channel |-> channel, videos |-> videos,
                        called |-> c.f.called, pre_exh |-> c.f.pre_exh ]]

(* self.can_make_request(cost); the answer is c.afford.answer *)
can_make_request(c, cost) ==
    [c EXCEPT !.afford = [cost |-> cost, used |-> c.used,
                          answer |-> can_use_quota(c.used, cost)]]

(* self.quota_tracker.use_quota(cost): add, save, then raise at the limit; *)
(* c.charge.raised tells whether "Cuota diaria agotada" was raised         *)
(* use_quota raising before it has saved *)
Charge_raising_unsaved(c, cost) ==
    LET u == use_quota(c.used, cost)
    IN  [c EXCEPT !.used = u.used,
                  !.qfile = IF u.raised THEN @ ELSE save_quota(u.used, c.now),
                  !.charge = [cost |-> cost, before |-> c.used, raised |-> u.raised],
                  !.charged_today = @ + cost,
                  !.lday = Date(c.now)]

Charge(c, cost) ==
    LET u == use_quota(c.used, cost)
    IN  [c EXCEPT !.used = u.used,
                  !.qfile = save_quota(u.used, c.now),
                  !.charge = [cost |-> cost, before |-> c.used, raised |-> u.raised],
                  !.charged_today = @ + cost,
                  !.lday = Date(c.now)]

-----------------------------------------------------------------------------
(* YouTubeClient: credential rotation *)

(* _rotate_key going back to the first credential after the last *)
_rotate_key_wrapping(key, n) == [ok |-> TRUE, key |-> (key + 1) % n]

_rotate_key(key, n) ==
    IF key + 1 < n THEN [ok |-> TRUE, key |-> key + 1]
                   ELSE [ok |-> FALSE, key |-> key]

(* _call_with_rotation up to its first upstream request, made at pc.  Its  *)
(* callers have all tested all_apis_exhausted just before.                 *)
BeginCall(c, pc) ==
    [c EXCEPT !.f.pc = pc, !.f.attempts = 0, !.f.issued = 0]

(* _call_with_rotation retrying on the last credential for ever *)
OnQuotaExceeded_retrying(c) ==
    LET rot == _rotate_key(c.key, c.n)
    IN  [c EXCEPT !.key = rot.key, !.f.attempts = @ + 1]

(* _call_with_rotation, a quotaExceeded answer: rotate and try again, or    *)
(* mark every credential exhausted (exh set: the exception is raised)       *)
OnQuotaExceeded(c) ==
    LET rot == _rotate_key(c.key, c.n)
        max_attempts == c.n
    IN  IF rot.ok /\ c.f.attempts + 1 < max_attempts
        THEN [c EXCEPT !.key = rot.key, !.f.attempts = @ + 1]
        ELSE [c EXCEPT !.key = rot.key, !.exh = TRUE]

-----------------------------------------------------------------------------
(* StreamingDetector, as get_channel_details runs it on a fresh detail *)

(* min returning its second argument *)
Min_second(a, b) == b

Min(a, b) == IF a < b THEN a ELSE b

(* the tail of get_channel_details: cache the channel and return it *)
FinishDetails(c, has_streaming) ==
    LET channel == [c.f.detail EXCEPT !.has_streaming = has_streaming]
        st == APICache_set(c.cache, c.cfile, ChannelKey(c.f.channel_id),
                           channel, c.now)
    IN  Return([c EXCEPT !.cache = st.cache, !.cfile = st.file],
               "ok", <<>>, channel, 0)

(* check_streaming_capability from the sum on: the description, schedule   *)
(* and platform scores are the detail's text_score                         *)
StreamingTotal(c, live_keywords_score, broadcast_score) ==
    FinishDetails(c, live_keywords_score + broadcast_score
                     + c.f.detail.text_score >= 15)

BroadcastScore(n) ==
    (IF n >= 5 THEN 8 ELSE IF n >= 3 THEN 5 ELSE IF n >= 1 THEN 3 ELSE 0)
    + (IF n >= 8 THEN 5 ELSE 0)

(* _check_broadcast_content up to its upstream call *)
check_broadcast_content(c, live_keywords_score) ==
    LET c1 == can_make_request(c, COST_STREAM_CHECK)
    IN  IF ~c1.afford.answer
        THEN StreamingTotal(c1, live_keywords_score, 0)
        ELSE IF c1.exh
        THEN StreamingTotal(c1, live_keywords_score, 0)
        ELSE BeginCall([c1 EXCEPT !.f.live = live_keywords_score], "broadcast")

(* _check_live_keywords up to its first upstream call *)
check_live_keywords(c) ==
    LET c1 == can_make_request(c, COST_STREAM_CHECK)
    IN  IF ~c1.afford.answer
        THEN check_broadcast_content(c1, 0)
        ELSE IF c1.exh
        THEN check_broadcast_content(c1, 0)
        ELSE BeginCall([c1 EXCEPT !.f.kw = 0, !.f.score = 0], "live_kw")

check_streaming_capability(c) ==
    IF c.exh THEN FinishDetails(c, TRUE) ELSE check_live_keywords(c)

-----------------------------------------------------------------------------
(* YouTubeClient.search_channels: the page loop up to the next upstream call *)

RECURSIVE search_pages(_, _, _, _)
search_pages(c, page, token, channels) ==
    IF page >= c.f.max_pages
    THEN Return(c, "ok", channels, NoData, 0)
    ELSE LET c1 == can_make_request(c, COST_SEARCH)
             cached == APICache_get(c.cache, SearchKey(c.f.query, page), c.now)
         IN  IF ~c1.afford.answer
             THEN Return(c1, "soft", channels, NoData, 0)
             ELSE IF cached.hit
             THEN search_pages(c1, page + 1, cached.data.next,
                               channels \o cached.data.items)
             ELSE BeginCall([c1 EXCEPT !.f.page = page, !.f.token = token,
                                       !.f.channels = channels], "search")

-----------------------------------------------------------------------------
(* What each operation does with the outcome of its upstream call. *)

(* "Todas las APIs han agotado su cuota diaria" leaves _call_with_rotation *)
OnAllExhausted(c) ==
    CASE c.f.pc = "live_kw"   -> check_broadcast_content(c, 0)
      [] c.f.pc = "broadcast" -> StreamingTotal(c, c.f.live, 0)
      [] OTHER                -> Return(c, "exhausted", <<>>, NoData, 0)

(* _call_with_rotation rotating on every HttpError *)
OnOtherError_rotating(c) ==
    LET c1 == [c EXCEPT !.key = _rotate_key(c.key, c.n).key]
    IN  CASE c.f.pc = "search"    -> Return(c1, "error", c.f.channels, NoData, 0)
          [] c.f.pc = "live_kw"   -> check_broadcast_content(c1, Min(c.f.score, 15))
          [] c.f.pc = "broadcast" -> StreamingTotal(c1, c.f.live, 0)
          [] OTHER                -> Return(c1, "error", <<>>, NoData, 0)

(* an HttpError that is not quotaExceeded reported as exhaustion *)
OnOtherError_fatal(c) == Return(c, "exhausted", <<>>, NoData, 0)

(* an HttpError that is not quotaExceeded leaves _call_with_rotation *)
OnOtherError(c) ==
    CASE c.f.pc = "search"    -> Return(c, "error", c.f.channels, NoData, 0)
      [] c.f.pc = "live_kw"   -> check_broadcast_content(c, Min(c.f.score, 15))
      [] c.f.pc = "broadcast" -> StreamingTotal(c, c.f.live, 0)
      [] OTHER                -> Return(c, "error", <<>>, NoData, 0)

(* use_quota raised "Cuota diaria agotada" after the call succeeded *)
(* the public operation letting the failure of the ledger out *)
OnLedgerError_raising(c) == Return(c, "exhausted", <<>>, NoData, 0)

OnLedgerError(c) ==
    CASE c.f.pc = "search"    -> Return(c, "ledger", c.f.channels, NoData, 0)
      [] c.f.pc = "live_kw"   -> check_broadcast_content(c, Min(c.f.score, 15))
      [] c.f.pc = "broadcast" -> StreamingTotal(c, c.f.live, 0)
      [] OTHER                -> Return(c, "ledger", <<>>, NoData, 0)

(* the call succeeded and its cost was charged without an exception *)
OnSearchPage(c, response) ==
    LET st == APICache_set(c.cache, c.cfile, SearchKey(c.f.query, c.f.page),
                           response, c.now)
        channels == c.f.channels \o response.items
        c1 == [c EXCEPT !.cache = st.cache, !.cfile = st.file,
                        !.f.channels = channels, !.f.token = response.next]
    IN  IF ~response.next
        THEN Return(c1, "ok", channels, NoData, 0)
        ELSE search_pages(c1, c.f.page + 1, response.next, channels)

OnDetail(c, response) ==
    IF response.found
    THEN check_streaming_capability([c EXCEPT !.f.detail = response])
    ELSE Return(c, "empty", <<>>, NoData, 0)

OnKeywordVideos(c, response) ==
    LET score == c.f.score + 3 * response.strong + 2 * response.long
    IN  IF score >= 10 \/ c.f.kw + 1 >= 3
        THEN check_broadcast_content(c, Min(score, 15))
        ELSE BeginCall([c EXCEPT !.f.score = score, !.f.kw = @ + 1], "live_kw")

OnBroadcastVideos(c, response) ==
    StreamingTotal(c, c.f.live, BroadcastScore(response.videos))

OnRecentVideos(c, response) ==
    Return(c, "ok", <<>>, NoData, response.videos)

OnSuccess(c, response) ==
    LET c1 == Charge(c, DeclaredCost(c.f.pc))
    IN  IF c1.charge.raised
        THEN OnLedgerError(c1)
        ELSE CASE c.f.pc = "search"    -> OnSearchPage(c1, response)
               [] c.f.pc = "detail"    -> OnDetail(c1, response)
               [] c.f.pc = "live_kw"   -> OnKeywordVideos(c1, response)
               [] c.f.pc = "broadcast" -> OnBroadcastVideos(c1, response)
               [] OTHER                -> OnRecentVideos(c1, response)

(* one upstream request of _call_with_rotation and the code that follows it *)
call_with_rotation(c, answer) ==
    LET c0 == [c EXCEPT !.f.issued = @ + 1, !.f.called = TRUE,
                        !.answer = answer.kind]
    IN  CASE answer.kind = "ok" ->
               OnSuccess(c0, answer.body)
          [] answer.kind = "quota" ->
               LET c1 == OnQuotaExceeded(c0)
               IN  IF c1.exh THEN OnAllExhausted(c1) ELSE c1
          [] OTHER ->
               OnOtherError(c0)

-----------------------------------------------------------------------------
(* The public operations, from their entry to their first upstream call *)

Enter(c, op) ==
    [c EXCEPT !.f = [IdleFrame EXCEPT !.op = op, !.pre_exh = c.exh],
              !.ret = NoRet, !.charge = NoCharge, !.afford = NoAfford,
              !.answer = "none"]

(* search_channels clearing the exhausted flag to try again *)
search_channels_retrying(c, query, max_pages) ==
    LET c0 == [Enter(c, "search") EXCEPT
                   !.f.query = query, !.f.max_pages = max_pages, !.exh = FALSE]
    IN  search_pages(c0, 0, FALSE, <<>>)

search_channels(c, query, max_pages) ==
    LET c0 == [Enter(c, "search") EXCEPT
                   !.f.query = query, !.f.max_pages = max_pages]
    IN  IF c.exh
        THEN Return(c0, "exhausted", <<>>, NoData, 0)
        ELSE search_pages(c0, 0, FALSE, <<>>)

(* get_channel_details charging for what the cache answered *)
get_channel_details_charging_hits(c, channel_id) ==
    LET c0 == [Enter(c, "details") EXCEPT !.f.channel_id = channel_id]
        c1 == can_make_request(c0, COST_CHANNEL_DETAILS)
        cached == APICache_get(c.cache, ChannelKey(channel_id), c.now)
    IN  IF c.exh
        THEN Return(c0, "exhausted", <<>>, NoData, 0)
        ELSE IF ~c1.afford.answer
        THEN Return(c1, "soft", <<>>, NoData, 0)
        ELSE IF cached.hit
        THEN Return(Charge(c1, COST_CHANNEL_DETAILS), "hit", <<>>, cached.data, 0)
        ELSE BeginCall(c1, "detail")

get_channel_details(c, channel_id) ==
    LET c0 == [Enter(c, "details") EXCEPT !.f.channel_id = channel_id]
        c1 == can_make_request(c0, COST_CHANNEL_DETAILS)
        cached == APICache_get(c.cache, ChannelKey(channel_id), c.now)
    IN  IF c.exh
        THEN Return(c0, "exhausted", <<>>, NoData, 0)
        ELSE IF ~c1.afford.answer
        THEN Return(c1, "soft", <<>>, NoData, 0)
        ELSE IF cached.hit
        THEN Return(c1, "hit", <<>>, cached.data, 0)
        ELSE BeginCall(c1, "detail")

(* get_recent_videos without its can_make_request test *)
get_recent_videos_unchecked(c, channel_id) ==
    LET c0 == [Enter(c, "videos") EXCEPT !.f.channel_id = channel_id]
    IN  IF c.exh
        THEN Return(c0, "exhausted", <<>>, NoData, 0)
        ELSE BeginCall(c0, "videos")

get_recent_videos(c, channel_id) ==
    LET c0 == [Enter(c, "videos") EXCEPT !.f.channel_id = channel_id]
        c1 == can_make_request(c0, COST_VIDEO_LIST)
    IN  IF c.exh
        THEN Return(c0, "exhausted", <<>>, NoData, 0)
        ELSE IF ~c1.afford.answer
        THEN Return(c1, "soft", <<>>, NoData, 0)
        ELSE BeginCall(c1, "videos")

-----------------------------------------------------------------------------
(* The state machine *)

(* quota that the file says was charged on the day of t *)
ChargedOn(file, t) ==
    IF file.kind = "ok" /\ file.date = Date(t) THEN file.used ELSE 0

(* StreamingArgentinaEngine.__init__: nothing running, nothing exhausted *)
EngineStart ==
    [ pc |-> "start", apis_exhausted |-> FALSE, query |-> 1,
      new_channels |-> <<>>, i |-> 1 ]

NoCsv == [exists |-> FALSE, rows |-> <<>>]
NoGet == [valid |-> FALSE, key |-> ChannelKey("c1"), at |-> 0, hit |-> FALSE,
          data |-> NoData]
NothingStored == [k \in CacheKeys |-> [put |-> FALSE, data |-> NoData, at |-> 0]]

ClientInit ==
    /\ now = StartTime
    /\ cache_file = EmptyCache
    /\ used_quota = load_quota(quota_file, now)
    /\ key_index = 0
    /\ all_apis_exhausted = FALSE
    /\ cache_data = load_cache(cache_file)
    /\ frame = IdleFrame
    /\ ret = NoRet
    /\ afford = NoAfford
    /\ charge = NoCharge
    /\ last_answer = "none"
    /\ charged_today = ChargedOn(quota_file, now)
    /\ ledger_day = Date(now)
    /\ ticks = 0
    /\ restarts = 0
    /\ ops = 0

EngineInit ==
    /\ engine = EngineStart
    /\ processed_file = {}
    /\ processed_channels = processed_file
    /\ analysed = {}
    /\ classified = {}
    /\ loaded_seen = processed_file

HarnessInit ==
    /\ got = NoGet
    /\ stored = NothingStored

(* the channel, text and outcome of the classifier, the concurrent callers  *)
(* and the schedule, while the client or the engine is explored             *)
NoCount == -1

PlainChannel ==
    [ title |-> "string", description |-> "string", country |-> "string",
      video |-> "string", subscriberCount |-> MIN_SUBSCRIBERS,
      has_streaming |-> TRUE, seen |-> FALSE ]

Pending == [kind |-> "pending", method |-> "none", confidence |-> 0]
DetachedInit ==
    /\ text = [title |-> <<>>, description |-> <<>>]
    /\ channel_details = PlainChannel
    /\ streamer = Pending
    /\ workers = <<>>
    /\ day_of_year = 1
    /\ current_phase = 0

Idle ==
    /\ quota_file = NoFile
    /\ n_keys = NKeys
    /\ streamers_csv = NoCsv
    /\ ClientInit
    /\ EngineInit
    /\ HarnessInit

Init ==
    /\ quota_file \in InitQuotaFiles
    /\ n_keys \in 1..NKeys
    /\ streamers_csv = NoCsv
    /\ ClientInit
    /\ EngineInit
    /\ HarnessInit
    /\ DetachedInit

Static == << now, n_keys, ticks, restarts >>
EngineSide == << engine, processed_channels, processed_file, streamers_csv,
                 analysed, classified, loaded_seen >>
CacheHarness == << got, stored >>
Classifier == << text, channel_details, streamer >>
Schedule == << day_of_year, current_phase >>
Detached == << Classifier, workers, Schedule >>

(* the caller starts a public operation of the client *)
CallSearchChannels(query, max_pages) ==
    /\ frame.pc = "idle"
    /\ ops < MaxOps
    /\ ops' = ops + 1
    /\ Becomes(search_channels(Client, query, max_pages))
    /\ UNCHANGED << Static, EngineSide, CacheHarness, Detached >>

CallGetChannelDetails(channel_id) ==
    /\ frame.pc = "idle"
    /\ ops < MaxOps
    /\ ops' = ops + 1
    /\ Becomes(get_channel_details(Client, channel_id))
    /\ UNCHANGED << Static, EngineSide, CacheHarness, Detached >>

CallGetRecentVideos(channel_id) ==
    /\ frame.pc = "idle"
    /\ ops < MaxOps
    /\ ops' = ops + 1
    /\ Becomes(get_recent_videos(Client, channel_id))
    /\ UNCHANGED << Static, EngineSide, CacheHarness, Detached >>

(* the upstream service answers the request the operation is waiting on *)
Upstream(answer) ==
    /\ frame.pc # "idle"
    /\ answer \in Answers(frame.pc)
    /\ Becomes(call_with_rotation(Client, answer))
    /\ UNCHANGED << Static, ops, EngineSide, CacheHarness, Detached >>

(* time passes; the clock is taken to advance between two operations *)
Tick(d) ==
    /\ frame.pc = "idle"
    /\ ticks < MaxTicks
    /\ ticks' = ticks + 1
    /\ now' = now + d
    /\ charged_today' = IF Date(now + d) = Date(now) THEN charged_today ELSE 0
    /\ UNCHANGED << quota_file, cache_file, n_keys, used_quota, key_index,
                    all_apis_exhausted, cache_data, frame, ret, afford, charge,
                    last_answer, ledger_day, restarts, ops, EngineSide,
                    CacheHarness, Detached >>

(* the process ends, wherever it is, and a new one is constructed:         *)
(* QuotaTracker.__init__, APICache.__init__, YouTubeClient.__init__,       *)
(* DataManager.__init__, StreamingArgentinaEngine.__init__                 *)
Restart ==
    /\ restarts < MaxRestarts
    /\ restarts' = restarts + 1
    /\ used_quota' = load_quota(quota_file, now)
    /\ cache_data' = load_cache(cache_file)
    /\ key_index' = 0
    /\ all_apis_exhausted' = FALSE
    /\ frame' = IdleFrame
    /\ ret' = NoRet
    /\ afford' = NoAfford
    /\ charge' = NoCharge
    /\ last_answer' = "none"
    /\ ledger_day' = Date(now)
    /\ engine' = EngineStart
    /\ processed_channels' = processed_file
    /\ loaded_seen' = processed_file
    /\ analysed' = {}
    /\ UNCHANGED << now, quota_file, cache_file, n_keys, charged_today, ticks, ops,
                    processed_file, streamers_csv, classified, CacheHarness,
                    Detached >>

Next ==
    \/ \E q \in Queries, m \in 1..MaxPages : CallSearchChannels(q, m)
    \/ \E id \in ChannelIds : CallGetChannelDetails(id)
    \/ \E id \in ChannelIds : CallGetRecentVideos(id)
    \/ \E a \in Answers(frame.pc) : Upstream(a)
    \/ \E d \in TickSteps : Tick(d)
    \/ Restart

Spec == Init /\ [][Next]_vars

-----------------------------------------------------------------------------
(* The response cache on its own: put, get and the passing of time *)

HarnessKeys == { ChannelKey("c1"), SearchKey("q1", 0) }
HarnessPayloads ==
    { [NoData EXCEPT !.found = TRUE, !.text_score = s] : s \in TextScores }
CacheTickSteps == { 1, CACHE_TTL - 1 }

CachePut(key, data) ==
    /\ LET st == APICache_set(cache_data, cache_file, key, data, now)
       IN  /\ cache_data' = st.cache
           /\ cache_file' = st.file
    /\ stored' = [stored EXCEPT ![key] = [put |-> TRUE, data |-> data, at |-> now]]
    /\ UNCHANGED << now, quota_file, n_keys, used_quota, key_index,
                    all_apis_exhausted, frame, ret, afford, charge, last_answer,
                    charged_today, ledger_day, EngineSide, got, ticks, restarts,
                    ops, Detached >>

CacheGet(key) ==
    /\ LET r == APICache_get(cache_data, key, now)
       IN  got' = [valid |-> TRUE, key |-> key, at |-> now, hit |-> r.hit,
                   data |-> r.data]
    /\ UNCHANGED << now, quota_file, cache_file, n_keys, used_quota, key_index,
                    all_apis_exhausted, cache_data, frame, ret, afford, charge,
                    last_answer, charged_today, ledger_day, EngineSide, stored,
                    ticks, restarts, ops, Detached >>

CacheTick(d) ==
    /\ ticks < MaxCacheTicks
    /\ ticks' = ticks + 1
    /\ now' = now + d
    /\ UNCHANGED << quota_file, cache_file, n_keys, used_quota, key_index,
                    all_apis_exhausted, cache_data, frame, ret, afford, charge,
                    last_answer, charged_today, ledger_day, EngineSide,
                    CacheHarness, restarts, ops, Detached >>

CacheInit ==
    /\ quota_file = NoFile
    /\ n_keys = NKeys
    /\ streamers_csv = NoCsv
    /\ ClientInit
    /\ EngineInit
    /\ HarnessInit
    /\ DetachedInit

CacheNext ==
    \/ \E k \in HarnessKeys, d \in HarnessPayloads : CachePut(k, d)
    \/ \E k \in HarnessKeys : CacheGet(k)
    \/ \E d \in CacheTickSteps : CacheTick(d)

CacheSpec == CacheInit /\ [][CacheNext]_vars

-----------------------------------------------------------------------------
(* ChannelAnalyzer *)

(* What analyze_channel decides from a detail alone: without has_streaming  *)
(* enhanced_channel_filter rejects; its other tests read the detail's own  *)
(* fields, which a cached and a fresh copy of one upstream detail share.    *)
PassesStreamingFilter(channel) == channel.found /\ channel.has_streaming

-----------------------------------------------------------------------------
(* DataManager *)

EmptyCsv == [exists |-> TRUE, rows |-> <<>>]

(* is_channel_processed finding nothing *)
is_channel_processed_never(seen, channel_id) == FALSE

is_channel_processed(seen, channel_id) == channel_id \in seen

mark_channel_processed(seen, file, channel_id) ==
    LET added == seen \cup {channel_id}
    IN  [seen |-> added,
         file |-> IF Cardinality(added) % SAVE_EVERY = 0 THEN added ELSE file]

(* save_processed_channels writing an empty store *)
save_processed_channels_empty(seen) == {}

save_processed_channels(seen) == seen

(* a row is appended, whatever the file holds; the file is created if need be *)
save_streamer(csv, channel_id) ==
    [exists |-> TRUE, rows |-> Append(csv.rows, channel_id)]

Rows(csv, channel_id) ==
    Cardinality({ r \in 1..Len(csv.rows) : csv.rows[r] = channel_id })

(* agregar_canales.py: the row is appended unless the file is missing or    *)
(* already has a row of the channel                                         *)
agregar_canal_manual(csv, channel_id) ==
    IF ~csv.exists \/ Rows(csv, channel_id) > 0
    THEN csv
    ELSE [csv EXCEPT !.rows = Append(@, channel_id)]

-----------------------------------------------------------------------------
(* StreamingArgentinaEngine.  The run is cut where it waits for the client: *)
(* each action runs the engine's code from one client operation's return to *)
(* the next client operation's start.                                       *)

PhaseQueries ==
    << [query |-> "q1", max_pages |-> MaxPages],
       [query |-> "q2", max_pages |-> MaxPages] >>

EngineQuotaFiles ==
    { NoFile, [kind |-> "ok", date |-> Date(StartTime), used |-> 17790] }

ClientSide == << quota_file, cache_file, used_quota, key_index,
                 all_apis_exhausted, cache_data, frame, ret, afford, charge,
                 last_answer, charged_today, ledger_day >>

(* process_search_term: "Filtrar canales ya procesados" *)
RECURSIVE filter_new_channels(_, _)
filter_new_channels(channels, st) ==
    IF channels = <<>>
    THEN st
    ELSE LET channel_id == Head(channels)
         IN  IF ~is_channel_processed(st.seen, channel_id)
             THEN LET m == mark_channel_processed(st.seen, st.file, channel_id)
                  IN  filter_new_channels(Tail(channels),
                          [seen |-> m.seen, file |-> m.file,
                           new |-> Append(st.new, channel_id)])
             ELSE filter_new_channels(Tail(channels), st)

(* execute_phase taking the same query again *)
NextQuery_again(e) == [e EXCEPT !.pc = "phase", !.new_channels = <<>>, !.i = 1]

(* the engine leaves the query it is on and is back at the head of the loop *)
(* of execute_phase                                                         *)
NextQuery(e) == [e EXCEPT !.pc = "phase", !.query = @ + 1,
                          !.new_channels = <<>>, !.i = 1]
NextChannel(e) == [e EXCEPT !.pc = "entity", !.i = @ + 1]
(* the handler of the all-credentials-exhausted error leaving the flag down *)
Exhausted_unflagged(e) == e

Exhausted(e) == [e EXCEPT !.apis_exhausted = TRUE]
Current == engine.new_channels[engine.i]

(* run_daily_execution up to the loop of execute_phase *)
RunDailyExecution ==
    /\ engine.pc = "start"
    /\ engine' = [engine EXCEPT !.pc = "phase"]
    /\ UNCHANGED << Static, ops, ClientSide, processed_channels, processed_file,
                    streamers_csv, analysed, classified, loaded_seen,
                    CacheHarness, Detached >>

(* execute_phase at the head of its loop, up to search_channels *)
ExecutePhase ==
    /\ engine.pc = "phase"
    /\ frame.pc = "idle"
    /\ IF engine.query > Len(PhaseQueries) \/ engine.apis_exhausted
       THEN /\ engine' = [engine EXCEPT !.pc = "flush"]
            /\ UNCHANGED ClientSide
       ELSE LET c1 == can_make_request(Client, COST_SEARCH * 2)
                q == PhaseQueries[engine.query]
            IN  IF ~c1.afford.answer
                THEN /\ engine' = [engine EXCEPT !.pc = "flush"]
                     /\ Becomes(c1)
                ELSE /\ engine' = [engine EXCEPT !.pc = "search"]
                     /\ Becomes(search_channels(Client, q.query, q.max_pages))
    /\ UNCHANGED << Static, ops, processed_channels, processed_file,
                    streamers_csv, analysed, classified, loaded_seen,
                    CacheHarness, Detached >>

(* process_search_term from the return of search_channels to its loop *)
AfterSearch ==
    /\ engine.pc = "search"
    /\ frame.pc = "idle"
    /\ CASE ret.kind = "exhausted" ->
              /\ engine' = NextQuery(Exhausted(engine))
              /\ UNCHANGED << processed_channels, processed_file >>
         [] ret.kind # "exhausted" /\ ret.channels = <<>> ->
              /\ engine' = NextQuery(engine)
              /\ UNCHANGED << processed_channels, processed_file >>
         [] OTHER ->
              LET st == filter_new_channels(ret.channels,
                            [seen |-> processed_channels, file |-> processed_file,
                             new |-> <<>>])
              IN  /\ processed_channels' = st.seen
                  /\ processed_file' = st.file
                  /\ engine' = [engine EXCEPT !.pc = "entity",
                                              !.new_channels = st.new, !.i = 1]
    /\ UNCHANGED << Static, ops, ClientSide, streamers_csv, analysed, classified,
                    loaded_seen, CacheHarness, Detached >>

(* the loop over new_channels at its head, up to get_channel_details *)
AnalyzeNext ==
    /\ engine.pc = "entity"
    /\ frame.pc = "idle"
    /\ IF engine.i > Len(engine.new_channels) \/ engine.apis_exhausted
       THEN /\ engine' = NextQuery(engine)
            /\ UNCHANGED << ClientSide, analysed >>
       ELSE LET needed_quota == COST_CHANNEL_DETAILS + COST_VIDEO_LIST
                                    + ANALYSIS_RESERVE
                c1 == can_make_request(Client, needed_quota)
            IN  IF ~c1.afford.answer
                THEN /\ engine' = NextQuery(engine)
                     /\ Becomes(c1)
                     /\ UNCHANGED analysed
                ELSE /\ engine' = [engine EXCEPT !.pc = "details"]
                     /\ Becomes(get_channel_details(Client, Current))
                     /\ analysed' = analysed \cup {Current}
    /\ UNCHANGED << Static, ops, processed_channels, processed_file,
                    streamers_csv, classified, loaded_seen, CacheHarness,
                    Detached >>

(* analyze_channel from the return of get_channel_details on *)
AfterDetails ==
    /\ engine.pc = "details"
    /\ frame.pc = "idle"
    /\ CASE ret.kind = "exhausted" ->
              /\ engine' = NextQuery(Exhausted(engine))
              /\ UNCHANGED << ClientSide, classified >>
         [] ret.kind \in {"ok", "hit"} /\ PassesStreamingFilter(ret.channel) ->
              /\ engine' = [engine EXCEPT !.pc = "videos"]
              /\ Becomes(get_recent_videos(Client, Current))
              /\ UNCHANGED classified
         [] ret.kind \in {"ok", "hit"} /\ ~PassesStreamingFilter(ret.channel) ->
              /\ engine' = NextChannel(engine)
              /\ classified' = classified \cup {Current}
              /\ UNCHANGED ClientSide
         [] OTHER ->
              /\ engine' = NextChannel(engine)
              /\ UNCHANGED << ClientSide, classified >>
    /\ UNCHANGED << Static, ops, processed_channels, processed_file,
                    streamers_csv, analysed, loaded_seen, CacheHarness,
                    Detached >>

(* what the texts of a channel and of its videos make analyze_channel do *)
Outcomes == { "accept", "reject", "error" }

(* analyze_channel from the return of get_recent_videos on, and save_streamer *)
AfterVideos(outcome) ==
    /\ engine.pc = "videos"
    /\ frame.pc = "idle"
    /\ IF ret.kind = "exhausted"
       THEN /\ engine' = NextQuery(Exhausted(engine))
            /\ UNCHANGED << classified, streamers_csv >>
       ELSE /\ engine' = NextChannel(engine)
            /\ classified' = IF outcome = "error" THEN classified
                             ELSE classified \cup {Current}
            /\ streamers_csv' = IF outcome = "accept"
                                THEN save_streamer(streamers_csv, Current)
                                ELSE streamers_csv
    /\ UNCHANGED << Static, ops, ClientSide, processed_channels, processed_file,
                    analysed, loaded_seen, CacheHarness, Detached >>

(* run_daily_execution after execute_phase: "Guardar datos pendientes" and  *)
(* the summary                                                              *)
Flush ==
    /\ engine.pc = "flush"
    /\ processed_file' = save_processed_channels(processed_channels)
    /\ cache_file' = cache_data
    /\ engine' = [engine EXCEPT !.pc = "done"]
    /\ UNCHANGED << Static, ops, quota_file, used_quota, key_index,
                    all_apis_exhausted, cache_data, frame, ret, afford, charge,
                    last_answer, charged_today, ledger_day, processed_channels,
                    streamers_csv, analysed, classified, loaded_seen,
                    CacheHarness, Detached >>

(* agregar_canales.py is run while no engine run is under way *)
AgregarCanalManual(channel_id) ==
    /\ engine.pc \in {"start", "done"}
    /\ streamers_csv' = agregar_canal_manual(streamers_csv, channel_id)
    /\ streamers_csv' # streamers_csv
    /\ UNCHANGED << Static, ops, ClientSide, engine, processed_channels,
                    processed_file, analysed, classified, loaded_seen,
                    CacheHarness, Detached >>

(* the runs of the engine are explored with one credential: rotation is    *)
(* explored under Spec                                                      *)
EngineSpecInit ==
    /\ quota_file \in EngineQuotaFiles
    /\ n_keys = 1
    /\ streamers_csv \in {NoCsv, EmptyCsv}
    /\ ClientInit
    /\ EngineInit
    /\ HarnessInit
    /\ DetachedInit

(* the upstream answers explored under the engine: both failures, and the   *)
(* successes that take analyze_channel down each of its branches            *)
EngineAnswers(pc) ==
    {QuotaExceeded, OtherError} \cup
    { Ok(r) : r \in
        CASE pc = "search"    -> { [NoData EXCEPT !.items = <<"c1", "c2">>] }
          [] pc = "detail"    -> { [NoData EXCEPT !.found = TRUE] }
          [] pc = "live_kw"   -> { [NoData EXCEPT !.videos = 2, !.strong = 2,
                                                  !.long = 2] }
          [] pc = "broadcast" -> BroadcastResponses
          [] pc = "videos"    -> VideoResponses
          [] OTHER            -> {} }

EngineRun ==
    \/ RunDailyExecution
    \/ ExecutePhase
    \/ AfterSearch
    \/ AnalyzeNext
    \/ AfterDetails
    \/ \E o \in Outcomes : AfterVideos(o)
    \/ Flush
    \/ \E a \in EngineAnswers(frame.pc) : Upstream(a)

(* the process of a run is taken to end before the run, when its work is    *)
(* done and nothing is flushed yet, or after its flush; a new one follows   *)
Interrupt ==
    /\ engine.pc \in {"start", "flush", "done"}
    /\ Restart

EngineNext ==
    \/ EngineRun
    \/ Interrupt
    \/ \E id \in AllChannels : AgregarCanalManual(id)

EngineSpec == EngineSpecInit /\ [][EngineNext]_vars

(* One run that is not interrupted.  The run is sequential code and every   *)
(* upstream request ends with a response or an error, so a step of the run  *)
(* that can be taken is taken.                                              *)
EngineLiveSpec == EngineSpecInit /\ [][EngineRun]_vars /\ WF_vars(EngineRun)

-----------------------------------------------------------------------------
(* ArgentineDetector.  A text is the sequence of its words; the words       *)
(* explored are those of LexiconWords, Titles and ExampleText, and each     *)
(* table below gives, for a word, the entries of one lexicon of             *)
(* _setup_patterns that occur in it as substrings.  No entry spans two of   *)
(* these words.  Confidences are in tenths of a percent, since score * 1.5  *)
(* and the regional boost have halves.                                      *)

(* "transmito todos los días a las 20hs, che" *)
ExampleText ==
    << "transmito", "todos", "los", "días", "a", "las", "20hs", "che" >>

argentine_slang(word) == IF word = "che" THEN {"che"} ELSE {}
argentine_culture(word) == IF word = "mate" THEN {"mate"} ELSE {}
argentine_time_patterns(word) == IF word = "20hs" THEN {"\\d+\\s*hs"} ELSE {}
argentina_mentions(word) == IF word = "argentina" THEN {"argentina"} ELSE {}
CODIGOS_ARGENTINOS(word) == IF word = "mza" THEN {"MZA"} ELSE {}
PROVINCIAS_ARGENTINAS(word) == IF word = "salta" THEN {"Salta"} ELSE {}
country_exclusions(word) ==
    IF word \in {"madrid", "barcelona", "valencia"}
    THEN { [country |-> "españa", indicator |-> word] }
    ELSE {}

(* detect_region: the tenths that each indicator found adds (weight * 5) *)
regions(word) ==
    CASE word = "mza"    -> { [region |-> "Mendoza", boost |-> 55] }
      [] word = "fernet" -> { [region |-> "Córdoba", boost |-> 55] }
      [] OTHER           -> {}

(* the words of a text *)
Words(words) == { words[i] : i \in 1..Len(words) }

VoseoVerbs == { "tenés", "sabés", "querés", "podés", "andás", "venís",
                "hacés", "decís" }

(* re.findall over the four voseo_patterns: places where one word follows   *)
(* the other                                                                *)
Pairs(words, first, second) ==
    Cardinality({ i \in 1..(Len(words) - 1) :
                      words[i] \in first /\ words[i + 1] \in second })

voseo_matches(words) ==
    Pairs(words, {"vos"}, VoseoVerbs \cup {"sos", "estás"})
    + Pairs(words, VoseoVerbs, {"vos"})
    + Pairs(words, {"che"}, {"vos"})
    + Pairs(words, {"vos"}, {"che"})

(* detect_other_countries finding no other country *)
detect_other_countries_none(words) == [found |-> FALSE, confidence |-> 900]

detect_other_countries(words) ==
    LET matches == UNION { country_exclusions(w) : w \in Words(words) }
    IN  [found |-> matches # {}, confidence |-> 900]

detect_explicit_argentina(words) ==
    IF UNION { argentina_mentions(w) : w \in Words(words) } # {}
    THEN [found |-> TRUE, method |-> "explicit_country", confidence |-> 950]
    ELSE IF UNION { CODIGOS_ARGENTINOS(w) : w \in Words(words) } # {}
    THEN [found |-> TRUE, method |-> "local_code", confidence |-> 920]
    ELSE IF UNION { PROVINCIAS_ARGENTINAS(w) : w \in Words(words) } # {}
    THEN [found |-> TRUE, method |-> "province_mention", confidence |-> 880]
    ELSE [found |-> FALSE, method |-> "none", confidence |-> 0]

RECURSIVE SumBoost(_)
SumBoost(S) ==
    IF S = {} THEN 0
    ELSE LET x == CHOOSE y \in S : TRUE IN x.boost + SumBoost(S \ {x})

(* detect_region: confidence_boost = min(10, best_score * 5) *)
detect_region(words) ==
    LET found == UNION { regions(w) : w \in Words(words) }
        names == { x.region : x \in found }
        totals == { SumBoost({ x \in found : x.region = r }) : r \in names }
        best == IF totals = {} THEN 0
                ELSE CHOOSE t \in totals : \A u \in totals : u <= t
    IN  Min(100, best)

(* analyze_cultural_patterns turning down a confidence at the minimum *)
analyze_cultural_patterns_strict(words) ==
    LET slang_found == UNION { argentine_slang(w) : w \in Words(words) }
        culture_found == UNION { argentine_culture(w) : w \in Words(words) }
        time_matches ==
            UNION { argentine_time_patterns(w) : w \in Words(words) }
        score == voseo_matches(words) * 20
                 + Cardinality(slang_found) * 10
                 + Cardinality(culture_found) * 8
                 + Cardinality(time_matches) * 15
        confidence == Min(950, score * 15)
    IN  [ is_argentine |-> confidence > MIN_CERTAINTY_ARGENTINA * 10,
          confidence |-> confidence, score |-> score ]

analyze_cultural_patterns(words) ==
    LET slang_found == UNION { argentine_slang(w) : w \in Words(words) }
        culture_found == UNION { argentine_culture(w) : w \in Words(words) }
        time_matches ==
            UNION { argentine_time_patterns(w) : w \in Words(words) }
        score == voseo_matches(words) * 20
                 + Cardinality(slang_found) * 10
                 + Cardinality(culture_found) * 8
                 + Cardinality(time_matches) * 15
        confidence == Min(950, score * 15)
    IN  [ is_argentine |-> confidence >= MIN_CERTAINTY_ARGENTINA * 10,
          confidence |-> confidence, score |-> score ]

(* a text field of a snippet: missing, a string, or JSON null *)
FieldKinds == { "absent", "string", "null" }

(* videos_data: no video, or one video whose description is of a kind *)
VideoKinds == { "none" } \cup FieldKinds

(* snippet.get('title', ''), snippet.get('description', ''): the words of   *)
(* the strings; the country string and the texts of the video hold no word  *)
(* of any lexicon                                                           *)
text_parts(c, t) ==
    (IF c.title = "string" THEN t.title ELSE <<>>)
    \o (IF c.description = "string" THEN t.description ELSE <<>>)

(* ' '.join(text_parts) and the slice [:200] fail on a value that is not a  *)
(* string                                                                   *)
JoinRaises(c) ==
    "null" \in { c.title, c.description, c.country, c.video }

NoAnalysis ==
    [ raised |-> FALSE, is_argentine |-> FALSE, confidence |-> 0,
      method |-> "none" ]

(* ArgentineDetector.analyze_channel on the joined text *)
analyze_text(words) ==
    LET other_country == detect_other_countries(words)
        explicit == detect_explicit_argentina(words)
        cultural == analyze_cultural_patterns(words)
        boost == detect_region(words)
    IN  IF other_country.found /\ other_country.confidence > 800
        THEN [NoAnalysis EXCEPT !.method = "country_exclusion"]
        ELSE IF explicit.found
        THEN [ raised |-> FALSE, is_argentine |-> TRUE,
               confidence |-> Min(1000, explicit.confidence + boost),
               method |-> explicit.method ]
        ELSE IF cultural.is_argentine
        THEN [ raised |-> FALSE, is_argentine |-> TRUE,
               confidence |-> Min(1000, cultural.confidence + boost),
               method |-> "cultural_patterns" ]
        ELSE [ raised |-> FALSE, is_argentine |-> FALSE,
               confidence |-> cultural.confidence,
               method |-> "insufficient_evidence" ]

(* ArgentineDetector.analyze_channel(channel_data, videos_data) *)
detector_analyze_channel(c, t) ==
    IF JoinRaises(c)
    THEN [NoAnalysis EXCEPT !.raised = TRUE]
    ELSE analyze_text(text_parts(c, t))

-----------------------------------------------------------------------------
(* ChannelAnalyzer.analyze_channel on one channel of a search result *)

(* int(stats.get('subscriberCount', 0)) *)
subscribers(c) == IF c.subscriberCount = NoCount THEN 0 ELSE c.subscriberCount

Channels ==
    [ title : FieldKinds, description : FieldKinds, country : FieldKinds,
      video : VideoKinds,
      subscriberCount : { NoCount, MIN_SUBSCRIBERS - 1, MIN_SUBSCRIBERS },
      has_streaming : BOOLEAN, seen : BOOLEAN ]

Skipped == [Pending EXCEPT !.kind = "skipped"]
Rejected == [Pending EXCEPT !.kind = "rejected"]
Failed == [Pending EXCEPT !.kind = "error"]

(* enhanced_channel_filter without its first test *)
enhanced_channel_filter_unfiltered(c) ==
    IF "null" \in { c.title, c.description } THEN "raises" ELSE "valid"

(* enhanced_channel_filter: "valid", "invalid", or "raises" where .lower()  *)
(* is called on a value that is not a string; the detail carries no view    *)
(* count, video count or date, and its texts no institutional keyword       *)
enhanced_channel_filter(c) ==
    IF ~c.has_streaming THEN "invalid"
    ELSE IF "null" \in { c.title, c.description } THEN "raises"
    ELSE "valid"

(* analyze_channel: None for a channel it turns down, None from the except  *)
(* clause when a step raised, or the StreamerData                           *)
analyzer_analyze_channel(c, t) ==
    IF subscribers(c) < MIN_SUBSCRIBERS THEN Rejected
    ELSE IF enhanced_channel_filter(c) = "invalid" THEN Rejected
    ELSE IF enhanced_channel_filter(c) = "raises" THEN Failed
    ELSE LET analysis == detector_analyze_channel(c, t)
             found == [ kind |-> "streamer", method |-> analysis.method,
                        confidence |-> analysis.confidence ]
         IN  IF analysis.raised THEN Failed
             ELSE IF ~analysis.is_argentine
             THEN [found EXCEPT !.kind = "rejected"]
             ELSE IF analysis.confidence < MIN_CERTAINTY_ARGENTINA * 10
             THEN [found EXCEPT !.kind = "rejected"]
             ELSE found

(* process_search_term on one channel: new_channels leaves out a channel    *)
(* that is_channel_processed reports, the others are analysed               *)
process_channel(c, t) ==
    IF c.seen THEN Skipped ELSE analyzer_analyze_channel(c, t)

(* the words that bring one more hit of an Argentine lexicon *)
LexiconWords ==
    { "vos", "tenés", "che", "mate", "20hs", "mza", "salta", "fernet" }

Titles ==
    { <<>>, <<"argentina">>, <<"madrid">>, <<"argentina", "madrid">>,
      <<"madrid", "barcelona", "valencia">> }

Descriptions == { <<>>, ExampleText }

MaxWords == 5

Attached ==
    << Static, ops, ClientSide, engine, processed_channels, processed_file,
       streamers_csv, analysed, classified, loaded_seen, CacheHarness >>

ClassifyInit ==
    /\ Idle
    /\ text \in [title : Titles, description : Descriptions]
    /\ channel_details \in Channels
    /\ streamer = Pending
    /\ workers = <<>>
    /\ day_of_year = 1
    /\ current_phase = 0

(* the engine meets the channel in a search result *)
ProcessChannel ==
    /\ streamer = Pending
    /\ streamer' = process_channel(channel_details, text)
    /\ UNCHANGED << Attached, text, channel_details, workers, Schedule >>

(* the same channel_details met again with one more word in its description *)
AddWord(w) ==
    /\ streamer # Pending
    /\ channel_details = PlainChannel
    /\ Len(text.description) < MaxWords
    /\ text' = [text EXCEPT !.description = Append(@, w)]
    /\ streamer' = process_channel(channel_details, text')
    /\ UNCHANGED << Attached, channel_details, workers, Schedule >>

ClassifyNext ==
    \/ ProcessChannel
    \/ \E w \in LexiconWords : AddWord(w)

ClassifySpec == ClassifyInit /\ [][ClassifyNext]_vars

-----------------------------------------------------------------------------
(* Concurrent callers.  The engine itself is sequential; here NWorkers      *)
(* callers in one process each run use_quota(cost) or the filter of         *)
(* process_search_term on one channel id, and a step is what one caller     *)
(* does between two points where another may run.  No method of             *)
(* QuotaTracker or DataManager takes a lock.                                *)

NWorkers == 2

Costs == { COST_CHANNEL_DETAILS, COST_SEARCH }

Task(op, cost, channel_id) ==
    [ op |-> op, cost |-> cost, channel_id |-> channel_id, pc |-> "start",
      used |-> 0, data |-> NoFile, is_new |-> FALSE ]

Tasks ==
    { Task("use_quota", c, "none") : c \in Costs }
    \cup { Task("process", 0, id) : id \in AllChannels }

WorkersIdle ==
    << Static, ops, cache_file, key_index, all_apis_exhausted, cache_data,
       frame, ret, afford, charge, last_answer, ledger_day, engine,
       streamers_csv, analysed, classified, loaded_seen, CacheHarness,
       Classifier, Schedule >>

WorkersInit ==
    /\ Idle
    /\ text = [title |-> <<>>, description |-> <<>>]
    /\ channel_details = PlainChannel
    /\ streamer = Pending
    /\ workers \in [1..NWorkers -> Tasks]
    /\ day_of_year = 1
    /\ current_phase = 0

At(w, op, pc) == workers[w].op = op /\ workers[w].pc = pc

(* use_quota: self.used_quota += cost, the read of the attribute *)
LoadUsed(w) ==
    /\ At(w, "use_quota", "start")
    /\ workers' = [workers EXCEPT ![w].used = used_quota, ![w].pc = "store"]
    /\ UNCHANGED << WorkersIdle, used_quota, quota_file, charged_today,
                    processed_channels, processed_file >>

(* use_quota: self.used_quota += cost, the store of the sum *)
StoreUsed(w) ==
    /\ At(w, "use_quota", "store")
    /\ used_quota' = use_quota(workers[w].used, workers[w].cost).used
    /\ charged_today' = charged_today + workers[w].cost
    /\ workers' = [workers EXCEPT ![w].pc = "save"]
    /\ UNCHANGED << WorkersIdle, quota_file, processed_channels,
                    processed_file >>

(* save_quota: data = {'date': ..., 'used': self.used_quota, ...} *)
BuildData(w) ==
    /\ At(w, "use_quota", "save")
    /\ workers' = [workers EXCEPT ![w].data = save_quota(used_quota, now),
                                  ![w].pc = "dump"]
    /\ UNCHANGED << WorkersIdle, used_quota, quota_file, charged_today,
                    processed_channels, processed_file >>

(* save_quota: json.dump(data, f) *)
DumpData(w) ==
    /\ At(w, "use_quota", "dump")
    /\ quota_file' = workers[w].data
    /\ workers' = [workers EXCEPT ![w].pc = "done"]
    /\ UNCHANGED << WorkersIdle, used_quota, charged_today,
                    processed_channels, processed_file >>

(* process_search_term: not self.data_manager.is_channel_processed(id) *)
CheckProcessed(w) ==
    /\ At(w, "process", "start")
    /\ workers' =
          [workers EXCEPT
              ![w].is_new = ~is_channel_processed(processed_channels,
                                                  workers[w].channel_id),
              ![w].pc = "mark"]
    /\ UNCHANGED << WorkersIdle, used_quota, quota_file, charged_today,
                    processed_channels, processed_file >>

(* process_search_term: new_channels.append(channel) and                    *)
(* mark_channel_processed(id), for a channel the test let through           *)
MarkProcessed(w) ==
    /\ At(w, "process", "mark")
    /\ LET m == mark_channel_processed(processed_channels, processed_file,
                                       workers[w].channel_id)
       IN  IF workers[w].is_new
           THEN /\ processed_channels' = m.seen
                /\ processed_file' = m.file
           ELSE UNCHANGED << processed_channels, processed_file >>
    /\ workers' = [workers EXCEPT ![w].pc = "done"]
    /\ UNCHANGED << WorkersIdle, used_quota, quota_file, charged_today >>

WorkersNext ==
    \E w \in 1..NWorkers :
        \/ LoadUsed(w)
        \/ StoreUsed(w)
        \/ BuildData(w)
        \/ DumpData(w)
        \/ CheckProcessed(w)
        \/ MarkProcessed(w)

WorkersSpec == WorkersInit /\ [][WorkersNext]_vars

-----------------------------------------------------------------------------
(* The phase of the day: run_daily_execution on each day of a year *)

DaysInYear == 366

(* current_phase = (day_of_year % 4) + 1 *)
phase_of_day(day) == (day % 4) + 1

(* create_readme, "Sistema de Fases": days 1-4, 17-20, ... phase 1; days    *)
(* 5-8, 21-24, ... phase 2; days 9-12, ... phase 3; days 13-16, ... phase 4 *)
readme_phase(day) == (((day - 1) \div 4) % 4) + 1

ScheduleIdle == << Attached, Classifier, workers >>

ScheduleInit ==
    /\ Idle
    /\ text = [title |-> <<>>, description |-> <<>>]
    /\ channel_details = PlainChannel
    /\ streamer = Pending
    /\ workers = <<>>
    /\ day_of_year = 1
    /\ current_phase = 0

(* run_daily_execution up to the choice of its phase *)
DeterminePhase ==
    /\ current_phase = 0
    /\ current_phase' = phase_of_day(day_of_year)
    /\ UNCHANGED << ScheduleIdle, day_of_year >>

(* the workflow starts the next day's process *)
NextDay ==
    /\ current_phase # 0
    /\ day_of_year' = IF day_of_year = DaysInYear THEN 1 ELSE day_of_year + 1
    /\ current_phase' = 0
    /\ UNCHANGED ScheduleIdle

ScheduleNext == DeterminePhase \/ NextDay

ScheduleSpec == ScheduleInit /\ [][ScheduleNext]_vars

-----------------------------------------------------------------------------
(* Properties *)

EffectiveLimit == MAX_DAILY_QUOTA - SAFETY_BUFFER

(* the step is one upstream request of a running operation *)
UpstreamStep == frame.pc # "idle" /\ frame' # frame /\ restarts' = restarts

(* the step is the entry of a public operation *)
EntryStep == ops' = ops + 1

(* the declared cost of the first request of a public operation *)
EntryCost(op) ==
    CASE op = "search"  -> COST_SEARCH
      [] op = "details" -> COST_CHANNEL_DETAILS
      [] OTHER          -> COST_VIDEO_LIST

(* the operation that an entry step has entered *)
Entered == IF frame'.pc = "idle" THEN ret'.op ELSE frame'.op

(* C1: rotation terminates.  With n credentials, a call of                 *)
(* _call_with_rotation that is still running has had fewer than n upstream  *)
(* attempts answered, so it makes at most n; an operation that has ended on *)
(* a quota-exceeded answer has left the client exhausted; and an operation  *)
(* entered by an exhausted client fails with the all-credentials-exhausted  *)
(* error without any upstream call.                                         *)
C1_RotationTerminates ==
    /\ frame.pc # "idle" => frame.issued < n_keys
    /\ (last_answer = "quota" /\ frame.pc = "idle") => all_apis_exhausted
    /\ ret.pre_exh => (ret.kind = "exhausted" /\ ~ret.called)

(* every credential answered quota-exceeded, and a later call was refused *)
C1_Witness ==
    /\ n_keys = NKeys
    /\ key_index = NKeys - 1
    /\ ret.pre_exh
    /\ ret.kind = "exhausted"

(* C2: the exhausted flag is one-way.  In one process, no step takes       *)
(* all_apis_exhausted from true back to false.                              *)
C2_ExhaustedIsOneWay ==
    [][(all_apis_exhausted /\ restarts' = restarts) => all_apis_exhausted']_vars

(* the flag was set, the clock went on, and an operation found it still set *)
C2_Witness ==
    /\ all_apis_exhausted
    /\ ticks > 0
    /\ ret.op = "details"
    /\ ret.pre_exh

(* an operation that has ended by raising to its caller *)
Raised == ret.kind \in {"exhausted"}

(* C3, as stated: when an upstream call fails with an error other than     *)
(* quota-exceeded, the operation ends by propagating the error to its       *)
(* caller.                                                                  *)
C3_OtherErrorPropagates ==
    (last_answer = "other" /\ frame.pc = "idle") => Raised

(* C3, amended: when an upstream call fails with an error other than       *)
(* quota-exceeded, the credential index and the exhausted flag are left     *)
(* unchanged, and the public operation does not raise: it ends with what it *)
(* has (the pages so far, None, an empty list, or the channel scored        *)
(* without the failed check), or goes on to its next check.                 *)
C3_OtherErrorNotRotated ==
    /\ [][last_answer' = "other" =>
            (key_index' = key_index /\ all_apis_exhausted' = all_apis_exhausted)]_vars
    /\ []((last_answer = "other" /\ frame.pc = "idle") => ret.kind \in {"error", "ok"})

(* a search on the first of two credentials ended on another error *)
C3_Witness ==
    /\ last_answer = "other"
    /\ ret.op = "search"
    /\ ret.kind = "error"
    /\ n_keys = NKeys
    /\ key_index = 0

(* C4: when the client is not exhausted and the ledger cannot afford the   *)
(* cost of an operation, the operation returns at once with a soft result   *)
(* (empty list, None): no upstream call, no charge, no rotation, no raise.  *)
(* Whenever an operation has ended softly, the last affordability test had  *)
(* failed and nothing was charged after it.                                 *)
C4_SoftWhenUnaffordable ==
    /\ [][(/\ EntryStep
           /\ ~all_apis_exhausted
           /\ used_quota + EntryCost(Entered) > EffectiveLimit)
          => (/\ frame'.pc = "idle"
              /\ ret'.kind = "soft"
              /\ ~ret'.called
              /\ ret'.channels = <<>>
              /\ ret'.channel = NoData
              /\ ret'.videos = 0
              /\ last_answer' = "none"
              /\ used_quota' = used_quota
              /\ quota_file' = quota_file
              /\ key_index' = key_index
              /\ ~all_apis_exhausted')]_vars
    /\ []((ret.kind = "soft" /\ frame.pc = "idle") =>
            (~afford.answer /\ afford.used = used_quota /\ ~Raised))

(* get_recent_videos was refused softly for want of quota *)
C4_Witness ==
    /\ ret.op = "videos"
    /\ ret.kind = "soft"
    /\ ~ret.called
    /\ ~all_apis_exhausted

(* C5: can_use_quota(cost) answers true exactly when used + cost is at     *)
(* most the daily limit less the safety buffer.                             *)
C5_CanAffordIffWithinCeiling ==
    afford.cost # 0 =>
        (afford.answer <=> afford.used + afford.cost <= MAX_DAILY_QUOTA - SAFETY_BUFFER)

(* a request that reaches the ceiling exactly was found affordable *)
C5_Witness ==
    /\ afford.cost # 0
    /\ afford.used + afford.cost = MAX_DAILY_QUOTA - SAFETY_BUFFER
    /\ afford.answer

(* C6: use_quota(cost) raises exactly when used + cost exceeds the daily   *)
(* limit less the safety buffer.                                            *)
C6_ChargeFailsOnlyAboveCeiling ==
    charge.cost # 0 =>
        (charge.raised <=> charge.before + charge.cost > MAX_DAILY_QUOTA - SAFETY_BUFFER)

(* C7: after charges within one calendar day, get_remaining() is the daily *)
(* limit less the safety buffer less the sum of the day's charges.          *)
C7_RemainingIsHeadroom ==
    charge.cost # 0 =>
        get_remaining(used_quota) = MAX_DAILY_QUOTA - SAFETY_BUFFER - charged_today

(* C8: usage charged on an earlier day is never persisted under the        *)
(* current day: a quota file dated today holds what was charged today.      *)
C8_FileHoldsTodaysCharges ==
    (quota_file.kind = "ok" /\ quota_file.date = Date(now)) =>
        quota_file.used = charged_today

(* C9: a restart on the calendar day of the stopped process's last ledger  *)
(* operation restores the used amount that process had in memory, and a     *)
(* restart on another day starts at zero.                                   *)
C9_RestartRestoresUsed ==
    [][restarts' = restarts + 1 =>
         used_quota' = IF Date(now) = ledger_day THEN used_quota ELSE 0]_vars

(* a restarted process holds the usage that a failed charge had reached *)
C9_Witness ==
    /\ restarts > 0
    /\ frame.pc = "idle"
    /\ ret = NoRet
    /\ used_quota = MAX_DAILY_QUOTA - SAFETY_BUFFER

(* C10: within a process the used amount changes only in a step whose      *)
(* upstream request succeeded, and then by the declared cost of that        *)
(* request; entries (cache hits, soft results), failed requests and         *)
(* rotations leave it unchanged.                                            *)
C10_ChargedOncePerFreshCall ==
    [][restarts' = restarts =>
         used_quota' = IF UpstreamStep /\ last_answer' = "ok"
                       THEN used_quota + DeclaredCost(frame.pc)
                       ELSE used_quota]_vars

(* a detail was fetched and charged, then answered again from the cache *)
C10_Witness ==
    /\ ret.op = "details"
    /\ ret.kind = "hit"
    /\ used_quota > 0
    /\ quota_file.kind = "ok"
    /\ quota_file.used = used_quota

(* C11: pagination ends with the first page that carries no next-page      *)
(* token, fetched or cached: a page after the first is requested upstream   *)
(* only with the token of the page before it.                               *)
C11_NoRequestAfterLastPage ==
    (frame.pc = "search" /\ frame.page > 0) => frame.token

(* C12: APICache.get(key) returns the payload last put under key exactly   *)
(* when less than the ttl of 7 days has passed since that put; for a key    *)
(* that was never put or whose put is ttl old or older it returns nothing.  *)
C12_GetIffFresh ==
    [][got' # got =>
         LET st == stored[got'.key]
         IN  /\ got'.hit <=> (st.put /\ got'.at - st.at < CACHE_TTL)
             /\ got'.hit => got'.data = st.data
             /\ ~got'.hit => got'.data = NoData]_vars

(* a get exactly ttl after the put found nothing *)
C12_Witness ==
    /\ got.valid
    /\ ~got.hit
    /\ stored[got.key].put
    /\ got.at - stored[got.key].at = CACHE_TTL

(* get_channel_details run to its return from c without the cache entry of  *)
(* channel_id, upstream answering with this detail, and with kw and bc to   *)
(* the video searches of the streaming checks                               *)
RECURSIVE FreshRun(_, _, _, _)
FreshRun(c, detail, kw, bc) ==
    IF c.f.pc = "idle"
    THEN c
    ELSE FreshRun(call_with_rotation(c, Ok(CASE c.f.pc = "detail"  -> detail
                                             [] c.f.pc = "live_kw" -> kw
                                             [] OTHER              -> bc)),
                  detail, kw, bc)

FreshDetails(c, channel_id, detail, kw, bc) ==
    FreshRun(get_channel_details(
                 [c EXCEPT !.cache[ChannelKey(channel_id)] = NoEntry], channel_id),
             detail, kw, bc).ret

(* C13: cache transparency.  When get_channel_details has answered from    *)
(* the cache, a fresh call in the same quota and credential state, answered *)
(* by upstream with the same detail, decides has_streaming as the cached    *)
(* copy does whenever it returns a detail, for the upstream video searches  *)
(* that the cached copy was computed from.  Stated for some such searches:  *)
(* if it fails for all of them it fails for those.                          *)
C13_CacheTransparent ==
    (frame.pc = "idle" /\ ret.kind = "hit") =>
        \A id \in AllChannels :
            (cache_data[ChannelKey(id)].present
             /\ cache_data[ChannelKey(id)].data = ret.channel) =>
                \E kw \in KeywordResponses, bc \in BroadcastResponses :
                    LET fresh == FreshDetails(Client, id,
                                     [ret.channel EXCEPT !.has_streaming = FALSE],
                                     kw, bc)
                    IN  fresh.kind = "ok" =>
                            PassesStreamingFilter(fresh.channel)
                                = PassesStreamingFilter(ret.channel)

(* the step starts analyze_channel on the channel the loop is at *)
AnalysisStep == engine.pc = "entity" /\ engine'.pc = "details"

(* the client is waiting on a channel-detail or video-list request *)
FetchingEntity == frame.pc \in {"detail", "live_kw", "broadcast", "videos"}

(* C14: idempotence.  analyze_channel is started only on a channel that    *)
(* the process did not load as seen and has not analysed before; and a run  *)
(* that loaded a store holding every channel upstream returns analyses none *)
(* and waits on no channel-detail or video-list request.                    *)
C14_SeenNeverAnalysedAgain ==
    /\ [][AnalysisStep => (Current \notin loaded_seen /\ Current \notin analysed)]_vars
    /\ [](loaded_seen = AllChannels => (analysed = {} /\ ~FetchingEntity))

(* a second run, after a flushed first one, found channels and ended with   *)
(* none analysed                                                            *)
C14_Witness ==
    /\ restarts > 0
    /\ engine.pc = "done"
    /\ loaded_seen = AllChannels
    /\ ret.op = "search" /\ ret.kind = "ok" /\ ret.channels # <<>>
    /\ analysed = {}

(* C15: a SeenRecord is created only when an entity finishes               *)
(* classification.  Stated for the store a finished run has flushed: every  *)
(* id in it is of a channel whose detail was fetched and whose              *)
(* classification ended in accept or reject, in this run or an earlier one. *)
C15_SeenOnlyWhenClassified ==
    engine.pc = "done" => processed_file \subseteq classified

(* C16: exactly-once emission.  After any sequence of runs, interrupted or  *)
(* not, and of manual additions, the streamers CSV holds at most one row    *)
(* per channel id.                                                          *)
C16_AtMostOneRow ==
    \A id \in AllChannels : Rows(streamers_csv, id) <= 1

(* the step is the end-of-run flush *)
FlushStep == engine.pc = "flush" /\ engine'.pc = "done"

(* C17: the SeenStore is append-only.  Within a process no step removes an  *)
(* id from processed_channels; no step removes an id from the stored file;  *)
(* the end-of-run flush stores every id the process holds; and a new        *)
(* process holds every id of the file.  So an id seen by a run that flushed *)
(* is seen in every later process.                                          *)
C17_SeenAppendOnly ==
    [][ /\ restarts' = restarts => processed_channels \subseteq processed_channels'
        /\ processed_file \subseteq processed_file'
        /\ FlushStep => processed_channels \subseteq processed_file'
        /\ restarts' # restarts => processed_file \subseteq processed_channels'
      ]_vars

(* a later process holds the ids a flushed run left, and is given them by   *)
(* a search again                                                           *)
C17_Witness ==
    /\ restarts > 0
    /\ loaded_seen # {}
    /\ engine.pc = "search" /\ frame.pc = "idle"
    /\ ret.channels # <<>>
    /\ \A r \in 1..Len(ret.channels) : ret.channels[r] \in processed_channels

(* the step starts a query task: process_search_term calls search_channels *)
QueryStep == engine.pc = "phase" /\ engine'.pc = "search"

(* C18: the engine stops the whole run when the client becomes exhausted.   *)
(* Once all_apis_exhausted is true no upstream request is outstanding, and  *)
(* no step of the run starts a query task or the analysis of an entity.     *)
C18_StopsWhenExhausted ==
    /\ [](all_apis_exhausted => frame.pc = "idle")
    /\ [][all_apis_exhausted => ~(AnalysisStep \/ QueryStep)]_vars

(* the step is the engine taking up the return of a client operation whose  *)
(* last upstream request failed with an error other than quota-exceeded     *)
ErrorReturnStep ==
    /\ engine.pc \in {"search", "details", "videos"}
    /\ frame.pc = "idle"
    /\ last_answer = "other"
    /\ engine' # engine
    /\ restarts' = restarts

(* C19: only all-credentials-exhausted ends a run early.  The engine's      *)
(* apis_exhausted flag is raised only when the client is exhausted; and the *)
(* return of an operation that failed on another error leaves the flag      *)
(* down and the engine at its next entity, at the rest of the current one,  *)
(* or at the head of the loop for the next query.                           *)
C19_ErrorsBecomeSkips ==
    [][ /\ (engine'.apis_exhausted /\ ~engine.apis_exhausted) => all_apis_exhausted
        /\ ErrorReturnStep =>
              /\ ~engine'.apis_exhausted
              /\ engine'.pc \in {"phase", "entity", "videos"}
              /\ engine'.pc = "phase" => engine' = NextQuery(engine)
              /\ engine.pc \in {"details", "videos"} /\ engine'.pc = "entity"
                    => engine' = NextChannel(engine)
      ]_vars

(* the analysis of c1 ended without a verdict and without exhaustion, and   *)
(* the detail of c2 is being fetched                                        *)
C19_Witness ==
    /\ restarts = 0
    /\ ~all_apis_exhausted
    /\ "c1" \in analysed /\ "c1" \notin classified
    /\ engine.pc = "details" /\ Current = "c2"
    /\ frame.pc = "detail"

(* the rows of csv are the first rows of later *)
KeepsRows(csv, later) ==
    /\ Len(csv.rows) <= Len(later.rows)
    /\ \A r \in 1..Len(csv.rows) : later.rows[r] = csv.rows[r]

(* C20: a run always ends with its summary and its end-of-run flush.        *)
(* Whatever upstream answers, run_daily_execution reaches its end; there    *)
(* the stored seen ledger and the stored cache are the ones in memory; and  *)
(* no step of the run removes a row from the streamers CSV.                 *)
C20_RunEndsFlushed ==
    /\ <>(engine.pc = "done")
    /\ [](engine.pc = "done" =>
            (processed_file = processed_channels /\ cache_file = cache_data))
    /\ [][KeepsRows(streamers_csv, streamers_csv')]_vars

(* a run that exhaustion stopped early has ended flushed, with the streamer *)
(* it had accepted in the CSV                                               *)
C20_Witness ==
    /\ engine.pc = "done"
    /\ engine.apis_exhausted
    /\ engine.query <= Len(PhaseQueries)
    /\ Rows(streamers_csv, "c1") = 1
    /\ processed_file = AllChannels
    /\ cache_file = cache_data /\ cache_file # EmptyCache

(* C21: exhaustion of all credentials met in the middle of the analysis of  *)
(* an entity is propagated, not swallowed: once the client is exhausted no  *)
(* step completes the classification of a channel.                          *)
C21_ExhaustionPropagates ==
    [][all_apis_exhausted => classified' = classified]_vars

(* the channel was analysed and its detail reached the detector, whose      *)
(* full_text is text_parts                                                  *)
ReachedDetector ==
    /\ streamer # Pending
    /\ ~channel_details.seen
    /\ subscribers(channel_details) >= MIN_SUBSCRIBERS
    /\ enhanced_channel_filter(channel_details) = "valid"
    /\ ~JoinRaises(channel_details)

full_text == text_parts(channel_details, text)

(* the indicators of other countries and the mentions of Argentina in it *)
Indicators == UNION { country_exclusions(w) : w \in Words(full_text) }
Mentions == UNION { argentina_mentions(w) : w \in Words(full_text) }

(* a channel whose null fields are missing instead *)
AsEmpty(c) ==
    [ c EXCEPT !.title = IF @ = "null" THEN "absent" ELSE @,
               !.description = IF @ = "null" THEN "absent" ELSE @,
               !.country = IF @ = "null" THEN "absent" ELSE @,
               !.video = IF @ = "null" THEN "absent" ELSE @ ]

(* C22: the pipeline never raises for malformed or missing text fields: a   *)
(* channel whose title, description, country or video description is absent *)
(* or malformed is analysed as if the field were the empty string, and gets *)
(* that result.                                                             *)
C22_MalformedAsEmpty ==
    streamer # Pending =>
        streamer = process_channel(AsEmpty(channel_details), text)

(* C23: exclusion precedence.  A text with at least 3 indicators of another *)
(* country and no explicit mention of Argentina is rejected by the detector *)
(* with the exclusion method, whatever cultural hits it also has.           *)
C23_ExclusionPrecedence ==
    ( /\ ReachedDetector
      /\ Cardinality(Indicators) >= 3
      /\ Mentions = {} )
    => ( /\ streamer.kind = "rejected"
         /\ streamer.method = "country_exclusion"
         /\ streamer.confidence = 0 )

(* three indicators of Spain next to cultural hits that alone would accept *)
C23_Witness ==
    /\ ReachedDetector
    /\ Cardinality(Indicators) >= 3
    /\ Mentions = {}
    /\ analyze_cultural_patterns(full_text).is_argentine
    /\ streamer.method = "country_exclusion"

(* C24: mixed signals.  A text with an explicit mention of Argentina and    *)
(* only a weak exclusion signal, a single indicator of another country, is  *)
(* resolved by the explicit-mention branch and accepted.                    *)
C24_WeakExclusionLoses ==
    ( /\ ReachedDetector
      /\ Mentions # {}
      /\ Cardinality(Indicators) = 1 )
    => ( /\ streamer.kind = "streamer"
         /\ streamer.method = "explicit_country" )

(* C25: classifier monotonicity.  One more hit of an Argentine lexicon in   *)
(* an otherwise identical text never lowers the confidence of the detector. *)
C25_MoreHitsNeverLower ==
    [][(streamer # Pending /\ streamer' # Pending)
          => streamer'.confidence >= streamer.confidence]_vars

(* C26: the channel whose description is "transmito todos los días a las    *)
(* 20hs, che", without subscriber count and without country, is accepted    *)
(* with the cultural-pattern method and a confidence of at least            *)
(* MIN_CERTAINTY_ARGENTINA.                                                 *)
C26_ExampleAccepted ==
    ( /\ streamer # Pending
      /\ text = [title |-> <<>>, description |-> ExampleText]
      /\ channel_details.description = "string"
      /\ channel_details.title # "null"
      /\ channel_details.video \in {"none", "absent", "string"}
      /\ channel_details.country = "absent"
      /\ channel_details.subscriberCount = NoCount
      /\ channel_details.has_streaming
      /\ ~channel_details.seen )
    => ( /\ streamer.kind = "streamer"
         /\ streamer.method = "cultural_patterns"
         /\ streamer.confidence >= MIN_CERTAINTY_ARGENTINA * 10 )

(* C30: only channels that really stream are saved.  Every StreamerData     *)
(* that process_search_term hands to save_streamer comes from a detail      *)
(* whose has_streaming is true, with at least MIN_SUBSCRIBERS subscribers,  *)
(* of a channel that was not marked processed before this analysis.         *)
C30_OnlyStreamersSaved ==
    streamer.kind = "streamer" =>
        /\ channel_details.has_streaming
        /\ subscribers(channel_details) >= MIN_SUBSCRIBERS
        /\ ~channel_details.seen

(* a streamer saved with exactly MIN_SUBSCRIBERS subscribers *)
C30_Witness ==
    /\ streamer.kind = "streamer"
    /\ channel_details.subscriberCount = MIN_SUBSCRIBERS
    /\ channel_details.has_streaming
    /\ ~channel_details.seen
    /\ streamer.confidence >= MIN_CERTAINTY_ARGENTINA * 10

AllDone == \A w \in 1..NWorkers : workers[w].pc = "done"

(* C27: use_quota is atomic with respect to concurrent callers.  When two   *)
(* workers have each charged a cost, whatever the interleaving, the used    *)
(* amount is the previous amount plus both costs and the amount in the      *)
(* quota file equals it.                                                    *)
C27_NoLostCharge ==
    ( /\ DOMAIN workers # {}
      /\ AllDone
      /\ \A w \in 1..NWorkers : workers[w].op = "use_quota" )
    => ( /\ used_quota = charged_today
         /\ quota_file = save_quota(used_quota, now) )

(* C28: the seen store tolerates concurrent workers.  Of the workers that   *)
(* received the same unseen channel id, at most one finds it new.           *)
C28_OneWorkerTakesId ==
    DOMAIN workers # {} =>
        \A id \in AllChannels :
            Cardinality({ w \in 1..NWorkers :
                              /\ workers[w].channel_id = id
                              /\ workers[w].is_new }) <= 1

(* C29: the phase schedule of the generated README.  On days 1-4, 17-20,   *)
(* 33-36, ... of the year the daily run executes phase 1, on days 5-8,      *)
(* 21-24, ... phase 2, on days 9-12, 25-28, ... phase 3 and on days 13-16,  *)
(* 29-32, ... phase 4; the phase executed is always one of 1..4.            *)
C29_PhaseAsDocumented ==
    current_phase # 0 =>
        /\ current_phase \in 1..4
        /\ current_phase = readme_phase(day_of_year)

(* the step is an upstream request answered quotaExceeded *)
QuotaAnswerStep == UpstreamStep /\ last_answer' = "quota"

(* C31: the credential state machine.  On a quota-exceeded answer while on  *)
(* credential index, the client moves to index + 1 and retries the request  *)
(* there if index + 1 < n, and otherwise becomes exhausted; within a        *)
(* process the index never decreases, it stays within 0..n-1, and the       *)
(* client becomes exhausted only on the last credential.                    *)
C31_CredentialStateMachine ==
    /\ [](key_index \in 0..(n_keys - 1))
    /\ [][restarts' = restarts => key_index' >= key_index]_vars
    /\ [][(~all_apis_exhausted /\ all_apis_exhausted')
             => (QuotaAnswerStep /\ key_index = n_keys - 1)]_vars
    /\ [][QuotaAnswerStep =>
            IF key_index + 1 < n_keys
            THEN /\ key_index' = key_index + 1
                 /\ ~all_apis_exhausted'
                 /\ frame'.pc = frame.pc
                 /\ used_quota' = used_quota
            ELSE /\ key_index' = key_index
                 /\ all_apis_exhausted']_vars

(* a request refused on the first credential waits for its answer on the    *)
(* second                                                                   *)
C31_Witness ==
    /\ n_keys = NKeys
    /\ key_index = 1
    /\ last_answer = "quota"
    /\ frame.pc = "detail"
    /\ frame.issued = 1
    /\ ~all_apis_exhausted

CulturalStage ==
    /\ ReachedDetector
    /\ Indicators = {}
    /\ ~detect_explicit_argentina(full_text).found

(* C33: in the cultural stage a text is accepted exactly when its           *)
(* confidence min(95, 1.5 x score) is at least MIN_CERTAINTY_ARGENTINA;     *)
(* otherwise it is rejected with method insufficient_evidence and that      *)
(* confidence; and every StreamerData handed to save_streamer has a         *)
(* confidence of at least MIN_CERTAINTY_ARGENTINA.                          *)
C33_AcceptedIffAtThreshold ==
    LET score == analyze_cultural_patterns(full_text).score
        confidence == Min(950, score * 15)
    IN  /\ CulturalStage =>
            IF confidence >= MIN_CERTAINTY_ARGENTINA * 10
            THEN /\ streamer.kind = "streamer"
                 /\ streamer.method = "cultural_patterns"
                 /\ streamer.confidence >= confidence
            ELSE /\ streamer.kind = "rejected"
                 /\ streamer.method = "insufficient_evidence"
                 /\ streamer.confidence = confidence
        /\ streamer.kind = "streamer" =>
               streamer.confidence >= MIN_CERTAINTY_ARGENTINA * 10

(* a text whose cultural confidence is exactly the minimum was accepted *)
C33_Witness ==
    /\ CulturalStage
    /\ streamer.kind = "streamer"
    /\ streamer.method = "cultural_patterns"
    /\ streamer.confidence = MIN_CERTAINTY_ARGENTINA * 10

(* C34: every confidence that ArgentineDetector.analyze_channel returns, on *)
(* every branch (exclusion, explicit mention with region boost, cultural    *)
(* pattern with region boost, insufficient evidence), lies in [0,100].      *)
C34_ConfidenceInRange ==
    ReachedDetector =>
        /\ streamer.method \in { "country_exclusion", "explicit_country",
                                 "local_code", "province_mention",
                                 "cultural_patterns", "insufficient_evidence" }
        /\ streamer.confidence \in 0..1000

(* a cultural confidence of 95 with a regional boost of 5.5 came out as 100 *)
C34_Witness ==
    /\ CulturalStage
    /\ streamer.method = "cultural_patterns"
    /\ analyze_cultural_patterns(full_text).confidence = 950
    /\ detect_region(full_text) = 55
    /\ streamer.confidence = 1000

(* C35: the quota ceiling.  Starting from a used amount of at most the      *)
(* daily limit less the safety buffer, no sequence of client operations     *)
(* takes the used amount of the ledger above it.                            *)
C35_UsedWithinCeiling ==
    /\ used_quota <= EffectiveLimit
    /\ quota_file.kind = "ok" => quota_file.used <= EffectiveLimit

(* the step is a successful upstream fetch whose cost was added to the      *)
(* ledger and after which the public operation returned to its caller       *)
PaidFetchReturns ==
    /\ UpstreamStep
    /\ last_answer' = "ok"
    /\ used_quota' = used_quota + DeclaredCost(frame.pc)
    /\ frame'.pc = "idle"

(* C36: no paid result is lost.  Whenever a search page, a channel detail   *)
(* or a video list was fetched and its cost added to the ledger, what was   *)
(* fetched is in the value the operation returns: the channels of the page  *)
(* follow those of the earlier pages, the detail is returned unless the     *)
(* answer had no item, the videos of the list are returned.                 *)
C36_PaidResultReturned ==
    [][PaidFetchReturns =>
        CASE frame.pc = "search" ->
               \E items \in SearchItems : ret'.channels = frame.channels \o items
          [] frame.pc = "detail" -> ret'.kind \in {"ok", "empty"}
          [] frame.pc = "videos" ->
               ret'.videos \in { r.videos : r \in VideoResponses }
          [] OTHER -> TRUE]_vars

(* the step is a successful upstream request whose charge made use_quota    *)
(* raise "Cuota diaria agotada"                                             *)
LedgerRaiseStep == UpstreamStep /\ last_answer' = "ok" /\ charge'.raised

(* C37: the failure of the ledger never leaves a public operation of the    *)
(* client.  When use_quota raises after a search page, a channel detail or  *)
(* a video list, the operation returns its soft result (the pages so far,   *)
(* no channel, no videos); no step in which use_quota raises ends in the    *)
(* operation raising, and none sets the exhausted flag.  An operation       *)
(* raises to the engine only with every credential exhausted.               *)
C37_LedgerFailureIsSoft ==
    /\ [](ret.kind = "exhausted" => all_apis_exhausted)
    /\ [][LedgerRaiseStep =>
            /\ all_apis_exhausted' = all_apis_exhausted
            /\ key_index' = key_index
            /\ frame'.pc = "idle" => ret'.kind # "exhausted"
            /\ frame.pc \in {"search", "detail", "videos"} =>
                 /\ frame'.pc = "idle"
                 /\ ret'.kind = "ledger"
                 /\ ret'.channels = frame.channels
                 /\ ret'.channel = NoData
                 /\ ret'.videos = 0]_vars

C37_Witness ==
    /\ frame.pc = "idle"
    /\ ret.op = "videos" /\ ret.kind = "ledger" /\ ret.videos = 0
    /\ last_answer = "ok" /\ charge.raised
    /\ used_quota >= EffectiveLimit
    /\ ~all_apis_exhausted

(* the step is the engine calling search_channels, get_channel_details or   *)
(* get_recent_videos                                                        *)
ClientCallStep ==
    /\ engine'.pc \in {"search", "details", "videos"}
    /\ engine'.pc # engine.pc

(* the step is the engine taking up a client operation that raised the      *)
(* all-credentials-exhausted error                                          *)
ExhaustedReturnStep ==
    /\ engine.pc \in {"search", "details", "videos"}
    /\ frame.pc = "idle"
    /\ ret.kind = "exhausted"
    /\ engine' # engine
    /\ restarts' = restarts

(* C38: the exhaustion flags agree.  The engine's apis_exhausted implies    *)
(* the client's all_apis_exhausted; and while the client's flag is up and   *)
(* the engine's is still down, no upstream request is issued and nothing is *)
(* charged, the next operation the engine calls on the client is refused    *)
(* at its entry, and the engine raises its own flag on taking that up.      *)
C38_ExhaustionFlagsAgree ==
    /\ [](engine.apis_exhausted => all_apis_exhausted)
    /\ [][(all_apis_exhausted /\ restarts' = restarts) =>
             (frame'.pc = "idle" /\ used_quota' = used_quota)]_vars
    /\ [][(all_apis_exhausted /\ ~engine.apis_exhausted /\ ClientCallStep) =>
             (frame'.pc = "idle" /\ ret'.kind = "exhausted" /\ ~ret'.called)]_vars
    /\ [][ExhaustedReturnStep => engine'.apis_exhausted]_vars

(* exhaustion met inside the streaming checks of one channel was swallowed, *)
(* the next operation was refused at its entry, and the engine has raised   *)
(* its flag on that                                                         *)
C38_Witness ==
    /\ engine.apis_exhausted /\ all_apis_exhausted
    /\ engine.pc = "phase"
    /\ ret.kind = "exhausted" /\ ret.pre_exh /\ ~ret.called
    /\ ret.op \in {"details", "videos"}
    /\ restarts = 0

====
